---- MODULE Spec2Model ----
(***************************************************************************)
(* Medical rotation scheduling: the parser, the CP-SAT model builder and   *)
(* one run of RotationScheduler.run, for one resident row of the roster    *)
(* (resident index 0) together with the head-counts of the other           *)
(* residents of the roster in the block being assigned.                    *)
(*                                                                         *)
(* The solver is the only nondeterministic part.  A solution of the built  *)
(* model is produced block by block: Assign gives x[0, b] and the          *)
(* indicators y[0, b, .] of the next block values that satisfy every       *)
(* constraint whose variables are then all assigned, and SolverReturns     *)
(* ends the solve once all thirteen blocks are assigned and the sums over  *)
(* the whole horizon are within their limits.  The schedules the solver    *)
(* returns are the runs that reach pc = "solved"; each cell of a returned  *)
(* schedule is a cell some Assign step produced.                           *)
(***************************************************************************)
EXTENDS Integers, Sequences, FiniteSets, TLC

(***************************************************************************)
(* scheduler/config.py                                                     *)
(***************************************************************************)
NUM_BLOCKS == 13

CLINICAL_ROTATIONS ==
    << "Cardiology", "Endocrine", "Infectious Disease", "AMAU", "Nephrology",
       "Neurology", "CCU", "MICU", "Al Khor", "MOP", "Geriatrics", "Hematology",
       "Oncology", "Al Wakra", "GI", "Pulmonology", "Rheumatology", "ED",
       "Medical Consultation", "Medical Teams", "Senior Rotation",
       "Registrar Rotation" >>

LEAVE_ROTATION == "LEAVE"

TRANSFER_ROTATION == "TRANSFER"

ALL_ROTATIONS == CLINICAL_ROTATIONS \o << LEAVE_ROTATION, TRANSFER_ROTATION >>

PGYRequirement(rotations, min_blocks, max_blocks) ==
    [rotations |-> rotations, min_blocks |-> min_blocks, max_blocks |-> max_blocks]

GRADUATION_REQUIREMENTS ==
    [ R1 |-> << PGYRequirement({"Medical Teams"}, 4, 7),
                PGYRequirement({"AMAU"}, 1, 2),
                PGYRequirement({"Cardiology"}, 2, 2),
                PGYRequirement({"Infectious Disease"}, 1, 2),
                PGYRequirement({"Endocrine"}, 1, 2) >>,
      R2 |-> << PGYRequirement({"Senior Rotation"}, 1, 2),
                PGYRequirement({"CCU"}, 2, 2),
                PGYRequirement({"MICU"}, 2, 2),
                PGYRequirement({"Nephrology"}, 1, 2),
                PGYRequirement({"Neurology"}, 1, 1),
                PGYRequirement({"Cardiology"}, 1, 1),
                PGYRequirement({"Geriatrics"}, 1, 1),
                PGYRequirement({"AMAU"}, 1, 2),
                PGYRequirement({"Al Khor"}, 0, 1),
                PGYRequirement({"MOP"}, 1, 1) >>,
      R3 |-> << PGYRequirement({"Senior Rotation"}, 2, 2),
                PGYRequirement({"Oncology"}, 1, 1),
                PGYRequirement({"Hematology"}, 1, 1),
                PGYRequirement({"Al Wakra"}, 1, 1),
                PGYRequirement({"GI"}, 2, 2),
                PGYRequirement({"Pulmonology"}, 2, 2),
                PGYRequirement({"Rheumatology"}, 1, 1),
                PGYRequirement({"MOP"}, 1, 1),
                PGYRequirement({"AMAU"}, 1, 1),
                PGYRequirement({"Cardiology", "ED", "Medical Consultation"}, 1, 1) >>,
      R4 |-> << PGYRequirement({"Registrar Rotation"}, 5, 6),
                PGYRequirement({"Medical Consultation"}, 3, 5),
                PGYRequirement({"Al Wakra"}, 1, 2),
                PGYRequirement({"Al Khor"}, 1, 2),
                PGYRequirement({"Hematology", "Oncology"}, 1, 2) >>,
      R4_Chiefs |-> << PGYRequirement({"Registrar Rotation"}, 5, 7),
                       PGYRequirement({"Medical Consultation"}, 6, 8) >>,
      R_NEURO |-> << PGYRequirement({"Medical Teams"}, 3, 3),
                     PGYRequirement({"AMAU"}, 3, 4),
                     PGYRequirement({"MICU"}, 1, 1),
                     PGYRequirement({"Rheumatology"}, 1, 1),
                     PGYRequirement({"ED"}, 2, 2),
                     PGYRequirement({"TRANSFER"}, 2, 2) >> ]

\* The table with the pinned rotation of R_NEURO allowed on a half leave.
LEAVE_ELIGIBLE_ROTATIONS_WithTransfer ==
    [ R1 |-> {"Endocrine", "AMAU", "Infectious Disease"},
      R2 |-> {"MOP", "Nephrology", "AMAU"},
      R3 |-> {"GI", "Pulmonology", "AMAU"},
      R4 |-> {"Medical Consultation"},
      R_NEURO |-> {"AMAU", "TRANSFER"} ]

LEAVE_ELIGIBLE_ROTATIONS ==
    [ R1 |-> {"Endocrine", "AMAU", "Infectious Disease"},
      R2 |-> {"MOP", "Nephrology", "AMAU"},
      R3 |-> {"GI", "Pulmonology", "AMAU"},
      R4 |-> {"Medical Consultation"},
      R_NEURO |-> {"AMAU"} ]

PER_BLOCK_MINIMUM_STAFFING ==
    ("Cardiology" :> 11) @@ ("AMAU" :> 11) @@ ("CCU" :> 7) @@ ("MICU" :> 7) @@
    ("Al Khor" :> 6) @@ ("MOP" :> 6) @@ ("Hematology" :> 5) @@ ("Oncology" :> 5) @@
    ("Al Wakra" :> 9) @@ ("Medical Consultation" :> 10) @@ ("Medical Teams" :> 20)

COVERAGE_GROUPS ==
    [ Floater |-> {"Nephrology", "Endocrine"},
      2ndOnCall |-> {"GI", "Rheumatology", "Pulmonology"} ]

REWARD_WEIGHT == 1

PENALTY_WEIGHT == 0 - 1

(***************************************************************************)
(* Bounds of the model: the inputs the roster file is drawn from.          *)
(***************************************************************************)
\* A roster of at most this many residents is enumerated exhaustively: every
\* column of coverage terms the other residents can form is a candidate.
SmallRoster == 2

\* The number of residents of the full-size roster.
FullRoster == 160

\* The number of residents of a roster too short for the staffing of a block.
ShortRoster == 126

\* The most entries of a soft_constraints_map handed to the analyzer.
MaxRules == 2

\* The largest max_possible_score handed to the analyzer.
MaxScore == 4

Levels == {"R1", "R2", "R3", "R4", "R4_Chiefs", "R_NEURO"}

\* Leave1Block and Leave2Block of a row: none, a full leave, a half leave.
LeavePairs == {<<0, 0>>, <<7, 7>>, <<7, 0>>}

\* More leave requests: in the first and in the last block, and two half leaves.
MoreLeavePairs == LeavePairs \cup {<<13, 13>>, <<1, 1>>, <<0, 13>>, <<1, 13>>}

\* Leave requests in the blocks the template of R_NEURO pins, full and half.
TemplateLeavePairs == {<<2, 2>>, <<3, 3>>, <<12, 12>>, <<2, 0>>, <<0, 3>>, <<12, 0>>, <<3, 12>>}

\* The leave requests of the rows that carry an override.
OverrideLeavePairs == {<<0, 0>>, <<13, 13>>, <<13, 0>>}

\* The Block_b columns an override is written in.
OverrideBlocks == {1, 13}

\* The names written in Block_b columns; "Cardio" is not in the rotation catalog.
OverrideNames == {"AMAU", "Senior Rotation", "Medical Consultation", "LEAVE", "Cardio"}

(***************************************************************************)
(* scheduler/parser.py                                                     *)
(***************************************************************************)
Blocks == 0 .. (NUM_BLOCKS - 1)

RotationNames == {ALL_ROTATIONS[i] : i \in 1 .. Len(ALL_ROTATIONS)}

\* rotation_to_idx = {rot: i for i, rot in enumerate(ALL_ROTATIONS)}
rotation_to_idx ==
    [rot \in RotationNames |-> (CHOOSE i \in 1 .. Len(ALL_ROTATIONS) : ALL_ROTATIONS[i] = rot) - 1]

\* idx_to_rotation = {i: rot for rot, i in rotation_to_idx.items()}
idx_to_rotation == [i \in 0 .. (Len(ALL_ROTATIONS) - 1) |-> ALL_ROTATIONS[i + 1]]

leave_idx == rotation_to_idx[LEAVE_ROTATION]

\* dict.get(name) of rotation_to_idx: None for a name that is not a key.
None == 0 - 1

rotation_to_idx_get(rot_name) ==
    IF rot_name \in DOMAIN rotation_to_idx THEN rotation_to_idx[rot_name] ELSE None

\* A cell of a Block_b column after str(...).strip(), as the sequence of its
\* tokens: << >> for an empty cell, <<"nan">>, <<name>>, or <<"!", name>>.
CellStrings ==
    {<< >>, <<"nan">>} \cup {<<n>> : n \in OverrideNames} \cup {<<"!", n>> : n \in OverrideNames}

\* _parse_leave_requests with the block of a full leave also added to the half set.
parse_leave_requests_AlsoHalf(row) ==
    LET block1 == row.Leave1Block
        block2 == row.Leave2Block
    IN  [pgy |-> row.PGY,
         full |-> IF block1 # 0 /\ block1 = block2 THEN {block1} ELSE {},
         half |-> (IF block1 # 0 THEN {block1} ELSE {}) \cup
                  (IF block2 # 0 THEN {block2} ELSE {})]

\* _parse_leave_requests: the full and half leave sets of one row.
parse_leave_requests(row) ==
    LET block1 == row.Leave1Block
        block2 == row.Leave2Block
    IN  IF block1 # 0 /\ block1 = block2
        THEN [pgy |-> row.PGY, full |-> {block1}, half |-> {}]
        ELSE [pgy |-> row.PGY, full |-> {},
              half |-> (IF block1 # 0 THEN {block1} ELSE {}) \cup
                       (IF block2 # 0 THEN {block2} ELSE {})]

\* _parse_block_assignments: a cell is skipped when empty or "nan"/"none".
CellSkipped(assignment_str) ==
    assignment_str = << >> \/ assignment_str \in {<<"nan">>, <<"none">>}

\* assignment_str.startswith("!")
CellForbidden(assignment_str) == Head(assignment_str) = "!"

parse_forced_assignments(row) ==
    LET keys == {b \in Blocks : /\ ~CellSkipped(row.Block[b + 1])
                                /\ ~CellForbidden(row.Block[b + 1])}
    IN  [b \in keys |-> row.Block[b + 1][1]]

parse_forbidden_assignments(row) ==
    LET keys == {b \in Blocks : /\ ~CellSkipped(row.Block[b + 1])
                                /\ CellForbidden(row.Block[b + 1])}
    IN  [b \in keys |-> Tail(row.Block[b + 1])[1]]

\* _build_eligibility_map
RequirementRotations(pgy) ==
    UNION {GRADUATION_REQUIREMENTS[pgy][i].rotations :
              i \in 1 .. Len(GRADUATION_REQUIREMENTS[pgy])}

\* The map with TRANSFER added for every level.
build_eligibility_map_TransferForAll ==
    [pgy \in DOMAIN GRADUATION_REQUIREMENTS |->
        RequirementRotations(pgy) \cup {LEAVE_ROTATION} \cup {TRANSFER_ROTATION}]

build_eligibility_map ==
    [pgy \in DOMAIN GRADUATION_REQUIREMENTS |->
        RequirementRotations(pgy) \cup {LEAVE_ROTATION} \cup
        (IF pgy = "R_NEURO" THEN {TRANSFER_ROTATION} ELSE {})]

(***************************************************************************)
(* scheduler/model.py: variables and domains                               *)
(***************************************************************************)
\* dict.get(pgy, set())
GetOrEmpty(map, key) == IF key \in DOMAIN map THEN map[key] ELSE {}

\* The domain without the exclusion of the LEAVE rotation.
get_assignment_domain_KeepsLeave(b_idx, leave_info, pgy, eligibility) ==
    LET block_num == b_idx + 1
        eligible_rots == GetOrEmpty(eligibility, pgy)
        restricted == IF block_num \in leave_info.half
                      THEN eligible_rots \cap GetOrEmpty(LEAVE_ELIGIBLE_ROTATIONS, pgy)
                      ELSE eligible_rots
    IN  IF block_num \in leave_info.full
        THEN {leave_idx}
        ELSE {rotation_to_idx[rot] : rot \in {r \in restricted : r \in DOMAIN rotation_to_idx}}

\* The domain without the restriction of half-leave blocks.
get_assignment_domain_IgnoresHalf(b_idx, leave_info, pgy, eligibility) ==
    LET block_num == b_idx + 1
        eligible_rots == GetOrEmpty(eligibility, pgy)
    IN  IF block_num \in leave_info.full
        THEN {leave_idx}
        ELSE {rotation_to_idx[rot] :
                 rot \in {r \in eligible_rots : r # LEAVE_ROTATION /\ r \in DOMAIN rotation_to_idx}}

\* _get_assignment_domain: the rotation indices allowed in block b_idx.
get_assignment_domain(b_idx, leave_info, pgy, eligibility) ==
    LET block_num == b_idx + 1
        eligible_rots == GetOrEmpty(eligibility, pgy)
        restricted == IF block_num \in leave_info.half
                      THEN eligible_rots \cap GetOrEmpty(LEAVE_ELIGIBLE_ROTATIONS, pgy)
                      ELSE eligible_rots
    IN  IF block_num \in leave_info.full
        THEN {leave_idx}
        ELSE {rotation_to_idx[rot] :
                 rot \in {r \in restricted : r # LEAVE_ROTATION /\ r \in DOMAIN rotation_to_idx}}

\* The links with the index of the next rotation of the catalog.
IndicatorLinked_NextIndex(xv, rot, var) ==
    LET rot_idx == rotation_to_idx[rot] + 1
    IN  /\ var => (xv = rot_idx)
        /\ ~var => (xv # rot_idx)

\* y[r, b, rot]: x[r, b] == rot_idx if var, x[r, b] != rot_idx if not var.
IndicatorLinked(xv, rot, var) ==
    LET rot_idx == rotation_to_idx[rot]
    IN  /\ var => (xv = rot_idx)
        /\ ~var => (xv # rot_idx)

\* The values the indicators of the first n rotations can take together under
\* their links with x[r, b] = xv, each as the set of rotations whose indicator is true.
RECURSIVE IndicatorValues(_, _)
IndicatorValues(xv, n) ==
    IF n = 0 THEN {{}}
    ELSE LET rot == ALL_ROTATIONS[n]
             before == IndicatorValues(xv, n - 1)
         IN  (IF IndicatorLinked(xv, rot, TRUE) THEN {s \cup {rot} : s \in before} ELSE {})
             \cup (IF IndicatorLinked(xv, rot, FALSE) THEN before ELSE {})

\* AddExactlyOne([y[r, b, rot] for rot in ALL_ROTATIONS])
ExactlyOne(ys) == Cardinality(ys) = 1

\* The values of the indicators y[r, b, .] that go with x[r, b] = xv.
IndicatorsOf ==
    [xv \in 0 .. (Len(ALL_ROTATIONS) - 1) |->
        {ys \in IndicatorValues(xv, Len(ALL_ROTATIONS)) : ExactlyOne(ys)}] @@ << >>

\* The (x, y) values _create_decision_variables allows for one cell.
create_decision_variables(dom) ==
    UNION {{<<xv, ys>> : ys \in IndicatorsOf[xv]} : xv \in dom}

(***************************************************************************)
(* scheduler/model.py: hard constraints.  Each is stated for the cell      *)
(* (resident 0, block b) that is being assigned: xv and ys are the values  *)
(* of x[0, b] and of the indicators y[0, b, .]; r is the number of         *)
(* consecutive blocks, ending with b, in which the same indicators are     *)
(* true; total[i] is the sum total_rotations_in_group of requirement i     *)
(* over the blocks b' <= b; col[k] is the value, in block b, of the        *)
(* coverage sum k over the whole roster.                                   *)
(***************************************************************************)
\* _add_hard_forced_and_forbidden_assignments
hard_forced_and_forbidden_assignments(b, xv, forced, forbidden) ==
    /\ b \in DOMAIN forced =>
          LET rot_idx == rotation_to_idx_get(forced[b])
          IN  rot_idx # None => xv = rot_idx
    /\ b \in DOMAIN forbidden =>
          LET rot_idx == rotation_to_idx_get(forbidden[b])
          IN  rot_idx # None => xv # rot_idx

\* The exemption without the test of the level, for every requirement that
\* names Medical Consultation.
RequirementSkipped_AnyLevel(pgy, requirement, full_leave_blocks) ==
    /\ "Medical Consultation" \in requirement.rotations
    /\ full_leave_blocks # {}

\* The exemption extended to the MOP requirement of R3.
RequirementSkipped_AlsoMOP(pgy, requirement, full_leave_blocks) ==
    /\ pgy = "R3"
    /\ requirement.rotations \in {{"Cardiology", "ED", "Medical Consultation"}, {"MOP"}}
    /\ full_leave_blocks # {}

\* The exemption of _add_hard_graduation_requirements.
RequirementSkipped(pgy, requirement, full_leave_blocks) ==
    /\ pgy = "R3"
    /\ requirement.rotations = {"Cardiology", "ED", "Medical Consultation"}
    /\ full_leave_blocks # {}

\* What the indicators ys of one block add to total_rotations_in_group (an
\* indicator exists for the rotations of the catalog only).
GroupTerm(requirement, ys) == Cardinality(ys \cap requirement.rotations)

\* _add_hard_graduation_requirements, over the sums of the whole horizon.
hard_graduation_requirements(pgy, leave_info, total) ==
    \A i \in 1 .. Len(GRADUATION_REQUIREMENTS[pgy]) :
        LET requirement == GRADUATION_REQUIREMENTS[pgy][i]
        IN  ~RequirementSkipped(pgy, requirement, leave_info.full) =>
                /\ total[i] >= requirement.min_blocks
                /\ total[i] <= requirement.max_blocks

\* The blocks still needed to bring the sums of requirements 1 .. i up to their minimum.
RECURSIVE Shortfall(_, _, _, _)
Shortfall(pgy, leave_info, total, i) ==
    IF i = 0 THEN 0
    ELSE LET requirement == GRADUATION_REQUIREMENTS[pgy][i]
         IN  (IF /\ ~RequirementSkipped(pgy, requirement, leave_info.full)
                 /\ total[i] < requirement.min_blocks
              THEN requirement.min_blocks - total[i] ELSE 0)
             + Shortfall(pgy, leave_info, total, i - 1)

\* The same constraints while blocks are still unassigned: no sum is above its
\* maximum, and the unassigned blocks can still bring every sum up to its minimum
\* (an indicator adds to the sum of at most one requirement of a level).
graduation_requirements_open(pgy, leave_info, total, unassigned) ==
    /\ \A i \in 1 .. Len(GRADUATION_REQUIREMENTS[pgy]) :
          LET requirement == GRADUATION_REQUIREMENTS[pgy][i]
          IN  ~RequirementSkipped(pgy, requirement, leave_info.full) =>
                  total[i] <= requirement.max_blocks
    /\ Shortfall(pgy, leave_info, total, Len(GRADUATION_REQUIREMENTS[pgy])) <= unassigned

\* The sums _add_hard_block_coverage_rules and the block-2 rule constrain.
CoverageKeys ==
    {"Senior Rotation", "Registrar Rotation"} \cup DOMAIN PER_BLOCK_MINIMUM_STAFFING
        \cup {"2ndOnCall", "Floater"}

\* The coverage rules with a minimum in place of the exact Senior Rotation count.
hard_block_coverage_rules_SeniorAtLeast(b, col) ==
    /\ col["Senior Rotation"] >= 10
    /\ col["Registrar Rotation"] = 20
    /\ b >= 3 => col["Medical Teams"] = 20
    /\ \A rot \in DOMAIN PER_BLOCK_MINIMUM_STAFFING :
          col[rot] >= PER_BLOCK_MINIMUM_STAFFING[rot]
    /\ col["2ndOnCall"] >= 60
    /\ col["Floater"] >= 10

\* _add_hard_block_coverage_rules
hard_block_coverage_rules(b, col) ==
    /\ col["Senior Rotation"] = 10
    /\ col["Registrar Rotation"] = 20
    /\ b >= 3 => col["Medical Teams"] = 20
    /\ \A rot \in DOMAIN PER_BLOCK_MINIMUM_STAFFING :
          col[rot] >= PER_BLOCK_MINIMUM_STAFFING[rot]
    /\ col["2ndOnCall"] >= 60
    /\ col["Floater"] >= 10

\* The first-block rules without the branch of R2.
hard_pgy_specific_first_block_R1Only(b, pgy, xv) ==
    LET med_teams_idx == rotation_to_idx["Medical Teams"]
    IN  b = 0 => (IF pgy = "R1" THEN xv = med_teams_idx ELSE TRUE)

\* _add_hard_pgy_specific_rules: the first-block rules of the levels
hard_pgy_specific_first_block(b, pgy, xv) ==
    LET med_teams_idx == rotation_to_idx["Medical Teams"]
        senior_idx == rotation_to_idx["Senior Rotation"]
    IN  b = 0 =>
            IF pgy = "R1" THEN xv = med_teams_idx
            ELSE IF pgy = "R2" THEN xv # senior_idx
            ELSE TRUE

\* _add_hard_pgy_specific_rules: the Medical Teams coverage of block 2
hard_pgy_specific_block_two(b, col) ==
    b = 1 => col["Medical Teams"] >= 25

\* The longest window of consecutive blocks a rule of the model reads.
LongestWindow == 6

\* rot is held in all of the last width blocks, the last being the current one.
WindowFull(rot, width, ys, r) == rot \in ys /\ r >= width

\* The window rule of R1 with one window start less: range(NUM_BLOCKS - 6).
hard_consecutive_rotation_rules_OneStartLess(b, pgy, ys, r) ==
    /\ (pgy = "R1" /\ (b - 5) \in 0 .. (NUM_BLOCKS - 6 - 1))
          => ~WindowFull("Medical Teams", 6, ys, r)
    /\ (pgy \in {"R2", "R3"} /\ (b - 1) \in 0 .. (NUM_BLOCKS - 1 - 1))
          => ~WindowFull("Senior Rotation", 2, ys, r)

\* The rule on consecutive Senior Rotation blocks for R2 alone.
hard_consecutive_rotation_rules_R2Only(b, pgy, ys, r) ==
    /\ (pgy = "R1" /\ (b - 5) \in 0 .. (NUM_BLOCKS - 5 - 1))
          => ~WindowFull("Medical Teams", 6, ys, r)
    /\ (pgy \in {"R2"} /\ (b - 1) \in 0 .. (NUM_BLOCKS - 1 - 1))
          => ~WindowFull("Senior Rotation", 2, ys, r)

\* _add_hard_consecutive_rotation_rules
hard_consecutive_rotation_rules(b, pgy, ys, r) ==
    \* for start in range(NUM_BLOCKS - 5): the window start .. start + 5 ends at b
    /\ (pgy = "R1" /\ (b - 5) \in 0 .. (NUM_BLOCKS - 5 - 1))
          => ~WindowFull("Medical Teams", 6, ys, r)
    \* for b in range(NUM_BLOCKS - 1): the pair b, b + 1 ends at b
    /\ (pgy \in {"R2", "R3"} /\ (b - 1) \in 0 .. (NUM_BLOCKS - 1 - 1))
          => ~WindowFull("Senior Rotation", 2, ys, r)

\* The seam rule without the seam after block index 9.
hard_cross_batch_rules_FourSeams(b, ys, r) ==
    ((b - 1) \in {b0 \in {1, 3, 5, 7} : b0 < NUM_BLOCKS - 1}) =>
        \A rot \in {"AMAU", "CCU"} : ~WindowFull(rot, 2, ys, r)

\* _add_hard_cross_batch_rules
hard_cross_batch_rules(b, ys, r) ==
    ((b - 1) \in {b0 \in {1, 3, 5, 7, 9} : b0 < NUM_BLOCKS - 1}) =>
        \A rot \in {"AMAU", "CCU"} : ~WindowFull(rot, 2, ys, r)

\* The template of R_NEURO without the pin of the third block.
hard_neuro_resident_rules_TwoFirst(b, pgy, xv) ==
    LET med_teams_idx == rotation_to_idx["Medical Teams"]
        transfer_idx == rotation_to_idx["TRANSFER"]
    IN  pgy = "R_NEURO" =>
            /\ b \in {0, 1} => xv = med_teams_idx
            /\ b \in {11, 12} => xv = transfer_idx

\* _add_hard_neuro_resident_rules
hard_neuro_resident_rules(b, pgy, xv) ==
    LET med_teams_idx == rotation_to_idx["Medical Teams"]
        transfer_idx == rotation_to_idx["TRANSFER"]
    IN  pgy = "R_NEURO" =>
            /\ b \in {0, 1, 2} => xv = med_teams_idx
            /\ b \in {11, 12} => xv = transfer_idx

(***************************************************************************)
(* scheduler/model.py: the objective.  A term of the objective is a        *)
(* condition variable with its weight: name and start are those of the     *)
(* variable, blocks are the block indices whose indicators of rot the      *)
(* condition reads, and link tells which of the two implications between   *)
(* the variable and its pattern the model holds.                           *)
(***************************************************************************)
ObjectiveTerm(name, start, rot, blocks, weight, link) ==
    [name |-> name, start |-> start, rot |-> rot, blocks |-> blocks,
     weight |-> weight, link |-> link]

\* _create_consecutive_bool: AddBoolAnd under the variable, AddBoolOr under its negation
create_consecutive_bool(b_idx, rot, weight) ==
    ObjectiveTerm("consecutive", b_idx, rot, {b_idx, b_idx + 1}, weight, "both")

\* _add_soft_r1_penalties
add_soft_r1_penalties(pgy) ==
    IF pgy = "R1"
    THEN {ObjectiveTerm("pen_r1_med4", start, "Medical Teams", start .. (start + 3),
                        PENALTY_WEIGHT, "both") : start \in 0 .. (NUM_BLOCKS - 3 - 1)}
         \cup {create_consecutive_bool(b_idx, "Cardiology", PENALTY_WEIGHT) :
                  b_idx \in 0 .. (NUM_BLOCKS - 1 - 1)}
    ELSE {}

\* _add_soft_r2_rewards
add_soft_r2_rewards(pgy) ==
    IF pgy = "R2"
    THEN {create_consecutive_bool(b_idx, rot, 2 * REWARD_WEIGHT) :
             b_idx \in 0 .. (NUM_BLOCKS - 1 - 1), rot \in {"MICU", "CCU"}}
    ELSE {}

\* _add_soft_r3_penalties: gap1_var has AddBoolAnd under the variable only
add_soft_r3_penalties(pgy) ==
    IF pgy = "R3"
    THEN {create_consecutive_bool(b_idx, "Senior Rotation", 2 * PENALTY_WEIGHT) :
             b_idx \in 0 .. (NUM_BLOCKS - 2 - 1)}
         \cup {ObjectiveTerm("pen_r3_senior_gap1", b_idx, "Senior Rotation",
                             {b_idx, b_idx + 2}, PENALTY_WEIGHT, "enforce_if") :
                  b_idx \in 0 .. (NUM_BLOCKS - 2 - 1)}
    ELSE {}

\* _add_soft_r4_penalties
add_soft_r4_penalties(pgy) ==
    IF pgy \in {"R4", "R4_Chiefs"}
    THEN {ObjectiveTerm("pen_r4_reg6", start, "Registrar Rotation", start .. (start + 5),
                        2 * PENALTY_WEIGHT, "both") : start \in 0 .. (NUM_BLOCKS - 5 - 1)}
    ELSE {}

\* _set_objective_function: the terms appended to objective_terms for a resident
set_objective_function(pgy) ==
    add_soft_r1_penalties(pgy) \cup add_soft_r2_rewards(pgy)
        \cup add_soft_r3_penalties(pgy) \cup add_soft_r4_penalties(pgy)

\* The last block a term reads: its variable is assigned with that block.
LastBlock(term) == CHOOSE b \in term.blocks : \A c \in term.blocks : c <= b

\* The rotations read two blocks back by some term of the level.
GapRotations(pgy) ==
    {term.rot : term \in {t \in set_objective_function(pgy) :
                             Cardinality(t.blocks) # LastBlock(t) - t.start + 1}}

\* rot is held in every block a term reads, the last being the current block:
\* before[1] and before[2] are the indicators of the two blocks before it.
HeldInAll(term, ys, r, before) ==
    IF Cardinality(term.blocks) = LastBlock(term) - term.start + 1
    THEN WindowFull(term.rot, Cardinality(term.blocks), ys, r)
    ELSE term.rot \in ys /\ term.rot \in before[LastBlock(term) - term.start]

\* The links with the pattern of the gap variable stated without OnlyEnforceIf.
ConditionLinked_GapAsserted(term, var, pattern) ==
    IF term.link = "both"
    THEN /\ var => pattern
         /\ ~var => ~pattern
    ELSE pattern

\* The constraints that link the variable of a term with its pattern.
ConditionLinked(term, var, pattern) ==
    IF term.link = "both"
    THEN /\ var => pattern
         /\ ~var => ~pattern
    ELSE var => pattern

\* The terms whose variables are assigned with block b, by level.
TermsEndingAt ==
    [pgy \in DOMAIN GRADUATION_REQUIREMENTS |->
        [b \in Blocks |-> {term \in set_objective_function(pgy) : LastBlock(term) = b}] @@ << >>]
        @@ << >>

\* The values the condition variables assigned with block b can take together:
\* each as the set of the terms whose variable is true.
ConditionValues(pgy, b, ys, r, before) ==
    {trues \in SUBSET TermsEndingAt[pgy][b] :
        \A term \in TermsEndingAt[pgy][b] :
            ConditionLinked(term, term \in trues, HeldInAll(term, ys, r, before))}

(***************************************************************************)
(* scheduler/main.py and scheduler/writer.py: the call of the writer       *)
(***************************************************************************)
\* The parameters of SolutionWriter.__init__ (none has a default).
SolutionWriterParameters ==
    {"solver", "parsed_data", "model_variables", "soft_constraints_map",
     "max_possible_score", "output_path"}

\* The methods of SolutionWriter.
SolutionWriterMethods ==
    {"process_and_write_solution", "_analyze_soft_constraints", "_write_to_excel",
     "_extract_schedule_dataframe", "_create_summary_dataframe"}

\* The keyword arguments RotationScheduler.run passes to SolutionWriter.
WriterArguments == {"solver", "parsed_data", "model_variables"}

\* The method RotationScheduler.run calls on the writer.
WriterMethodCalled == "write_to_excel"

\* The exception the calls of run raise ("" for none).
WriterCallRaises ==
    IF SolutionWriterParameters \ WriterArguments # {} THEN "TypeError"
    ELSE IF WriterMethodCalled \notin SolutionWriterMethods THEN "AttributeError"
    ELSE ""

\* What run has returned or raised so far.
NoResult == [returned |-> FALSE, success |-> FALSE, tables |-> "none", raised |-> ""]

(***************************************************************************)
(* The other residents of the roster.  Only their terms in the coverage    *)
(* sums of the block being assigned are kept: others[k] is what residents  *)
(* 1 .. num_residents - 1 add to coverage sum k in that block.             *)
(***************************************************************************)
\* The terms of a resident without the exclusion of R_NEURO from the pools.
CoverageTerm_CountsNeuro(k, b, pgy, leave_info, ys) ==
    IF k = "2ndOnCall"
    THEN (IF (b + 1) \in leave_info.half THEN 3 ELSE 6)
             * Cardinality(ys \cap COVERAGE_GROUPS["2ndOnCall"])
    ELSE IF k = "Floater"
    THEN Cardinality(ys \cap COVERAGE_GROUPS["Floater"])
    ELSE IF k \in ys THEN 1 ELSE 0

\* The term of resident 0 in coverage sum k of block b.
CoverageTerm(k, b, pgy, leave_info, ys) ==
    IF k = "2ndOnCall"
    THEN IF pgy # "R_NEURO"
         THEN (IF (b + 1) \in leave_info.half THEN 3 ELSE 6)
                  * Cardinality(ys \cap COVERAGE_GROUPS["2ndOnCall"])
         ELSE 0
    ELSE IF k = "Floater"
    THEN IF pgy # "R_NEURO" THEN Cardinality(ys \cap COVERAGE_GROUPS["Floater"]) ELSE 0
    ELSE IF k \in ys THEN 1 ELSE 0

coverage_sums(b, pgy, leave_info, ys, others) ==
    [k \in CoverageKeys |-> others[k] + CoverageTerm(k, b, pgy, leave_info, ys)]

RECURSIVE Sum(_, _)
Sum(f, S) == IF S = {} THEN 0 ELSE LET e == CHOOSE e \in S : TRUE IN f[e] + Sum(f, S \ {e})

\* The number of residents a column of terms needs at least.
ColumnHeads(c) == Sum(c, CoverageKeys \ {"2ndOnCall"}) + ((c["2ndOnCall"] + 5) \div 6)

ZeroColumn == [k \in CoverageKeys |-> 0]

\* What one resident can add to the coverage sums of a block.
UnitColumns ==
    {ZeroColumn} \cup {[ZeroColumn EXCEPT ![k] = 1] : k \in CoverageKeys \ {"2ndOnCall"}}
        \cup {[ZeroColumn EXCEPT !["2ndOnCall"] = w] : w \in {3, 6}}

RECURSIVE SmallColumns(_)
SmallColumns(n) ==
    IF n = 0 THEN {ZeroColumn}
    ELSE {[k \in CoverageKeys |-> c[k] + u[k]] : c \in SmallColumns(n - 1), u \in UnitColumns}

\* The column in which every coverage sum of block b is exactly at its limit.
StaffedColumn(b) ==
    [k \in CoverageKeys |->
        IF k = "Senior Rotation" THEN 10
        ELSE IF k = "Registrar Rotation" THEN 20
        ELSE IF k = "2ndOnCall" THEN 60
        ELSE IF k = "Floater" THEN 10
        ELSE IF k = "Medical Teams" /\ b = 1 THEN 25
        ELSE PER_BLOCK_MINIMUM_STAFFING[k]]

\* The rotations whose head-count is exact in some block.
ExactKeys == {"Senior Rotation", "Registrar Rotation", "Medical Teams"}

\* The columns of the other residents of a full-size roster: staffed, short of
\* what resident 0 can add to an exact count or to the weighted sum, or one over
\* on an exact count.
FullColumns(b) ==
    {StaffedColumn(b)}
        \cup {[StaffedColumn(b) EXCEPT ![k] = @ - 1] : k \in ExactKeys}
        \cup {[StaffedColumn(b) EXCEPT !["2ndOnCall"] = @ - w] : w \in {3, 6}}
        \cup {[StaffedColumn(b) EXCEPT ![k] = @ + 1] : k \in ExactKeys}

RosterSizes == (1 .. SmallRoster) \cup {ShortRoster, FullRoster}

\* The columns the other residents of a roster of n residents can form in block b.
OtherColumns ==
    [n \in RosterSizes |->
        [b \in Blocks |->
            IF n <= SmallRoster
            THEN SmallColumns(n - 1)
            ELSE {c \in FullColumns(b) : ColumnHeads(c) <= n - 1}] @@ << >>] @@ << >>

(***************************************************************************)
(* State                                                                   *)
(***************************************************************************)
VARIABLES
    source_df,              \* the row of resident 0 in the input file
    num_residents,          \* the number of rows of the input file
    pc,                     \* where RotationScheduler.run is
    leave_dict,             \* parser: leave_dict[resident 0]
    forced_assignments,     \* parser: block index -> name, for resident 0
    forbidden_assignments,  \* parser: block index -> name, for resident 0
    eligibility_map,        \* parser: level -> set of rotation names
    domain,                 \* builder: block index -> domain of x[0, b]
    soft_constraints_map,   \* builder: the sequence of (description, variable) entries
    blk,                    \* solver: the last block assigned (-1: none)
    x,                      \* solver: the value of x[0, blk]
    y,                      \* solver: the rotations rot with y[0, blk, rot] true
    run,                    \* solver: consecutive blocks ending at blk with the same y
    prior,                  \* solver: the indicators of blocks blk - 1, blk - 2 a term reads
    sums,                   \* solver: requirement -> total_rotations_in_group up to blk
    others,                 \* solver: the terms of the other residents in block blk
    heads,                  \* solver: the coverage sums of block blk
    soft,                   \* solver: the terms with a true condition variable
    status,                 \* the status solver.Solve returned
    result,                 \* what run returned or raised
    max_possible_score,     \* writer: max_possible_score
    position,               \* writer: the entries of the map already analyzed
    raw_score,              \* writer: raw_score
    normalized_score,       \* writer: normalized_score, as a fraction
    satisfied_constraints,  \* writer: satisfied_constraints
    unsatisfied_constraints,\* writer: unsatisfied_constraints
    log_records             \* writer: log_records

input_vars == <<source_df, num_residents>>

parser_vars == <<leave_dict, forced_assignments, forbidden_assignments, eligibility_map>>

builder_vars == <<domain, soft_constraints_map>>

solver_vars == <<blk, x, y, run, prior, sums, others, heads, soft, status>>

writer_vars == <<max_possible_score, position, raw_score, normalized_score,
                 satisfied_constraints, unsatisfied_constraints, log_records>>

vars == <<input_vars, pc, parser_vars, builder_vars, solver_vars, result, writer_vars>>

pgys == source_df.PGY

\* builder: the terms of the objective for resident 0.  The list is empty until
\* build_model runs and from then on a function of the row alone.
objective_terms ==
    IF pc \in {"start", "parsed"} THEN {} ELSE set_objective_function(pgys)

\* A row of the input file: a level, two leave requests, and the cells written
\* in the Block_b columns (cells maps block numbers to cells; the other Block_b
\* columns are empty).
Row(level, block1, block2, cells) ==
    [PGY |-> level, Leave1Block |-> block1, Leave2Block |-> block2,
     Block |-> [i \in 1 .. NUM_BLOCKS |-> IF i \in DOMAIN cells THEN cells[i] ELSE << >>]]

\* The fields of the writer before _analyze_soft_constraints runs.
WriterIdle ==
    /\ max_possible_score = 0
    /\ position = 0
    /\ raw_score = 0
    /\ normalized_score = [num |-> 0, den |-> 1]
    /\ satisfied_constraints = << >>
    /\ unsatisfied_constraints = << >>
    /\ log_records = << >>

InitWith(rows, rosters) ==
    /\ source_df \in rows
    /\ num_residents \in rosters
    /\ pc = "start"
    /\ leave_dict = [pgy |-> "", full |-> {}, half |-> {}]
    /\ forced_assignments = << >>
    /\ forbidden_assignments = << >>
    /\ eligibility_map = << >>
    /\ domain = << >>
    /\ soft_constraints_map = << >>
    /\ blk = 0 - 1
    /\ x = None
    /\ y = {}
    /\ run = 0
    /\ prior = <<{}, {}>>
    /\ sums = << >>
    /\ others = ZeroColumn
    /\ heads = ZeroColumn
    /\ soft = {}
    /\ status = "UNKNOWN"
    /\ result = NoResult
    /\ WriterIdle

\* RotationDataParser(input_path)
Parse ==
    /\ pc = "start"
    /\ pc' = "parsed"
    /\ leave_dict' = parse_leave_requests(source_df)
    /\ forced_assignments' = parse_forced_assignments(source_df)
    /\ forbidden_assignments' = parse_forbidden_assignments(source_df)
    /\ eligibility_map' = build_eligibility_map
    /\ UNCHANGED <<input_vars, builder_vars, solver_vars, result, writer_vars>>

\* ScheduleModelBuilder(parsed_data).build_model(): nothing is written to
\* soft_constraints_map after __init__ sets it to {}.
BuildModel ==
    /\ pc = "parsed"
    /\ pc' = "built"
    /\ domain' = [b \in Blocks |-> get_assignment_domain(b, leave_dict, pgys, eligibility_map)]
    /\ soft_constraints_map' = << >>
    /\ UNCHANGED <<input_vars, parser_vars, solver_vars, result, writer_vars>>

\* solver.Solve(model) is called
Solve ==
    /\ pc = "built"
    /\ pc' = "solving"
    /\ sums' = [i \in 1 .. Len(GRADUATION_REQUIREMENTS[pgys]) |-> 0]
    /\ UNCHANGED <<blk, x, y, run, prior, others, heads, soft, status>>
    /\ UNCHANGED <<input_vars, parser_vars, builder_vars, result, writer_vars>>

\* The hard constraints on the cell (0, b) that read resident 0 alone.
HardCell(b, xv, ys, r, total) ==
    /\ hard_forced_and_forbidden_assignments(b, xv, forced_assignments, forbidden_assignments)
    /\ hard_pgy_specific_first_block(b, pgys, xv)
    /\ hard_consecutive_rotation_rules(b, pgys, ys, r)
    /\ hard_cross_batch_rules(b, ys, r)
    /\ hard_neuro_resident_rules(b, pgys, xv)
    /\ graduation_requirements_open(pgys, leave_dict, total, NUM_BLOCKS - 1 - b)

\* The hard constraints on block b that sum over the roster.
HardColumn(b, col) ==
    /\ hard_block_coverage_rules(b, col)
    /\ hard_pgy_specific_block_two(b, col)

\* The solver assigns the next block: x[0, b], the indicators y[0, b, .] and the
\* condition variables of the objective terms that read no later block.
Assign ==
    /\ pc = "solving"
    /\ blk < NUM_BLOCKS - 1
    /\ LET b == blk + 1
       IN  \E cell \in create_decision_variables(domain[b]) :
               LET xv == cell[1]
                   ys == cell[2]
                   r == IF ys = y /\ ys # {}
                        THEN (IF run < LongestWindow THEN run + 1 ELSE run)
                        ELSE 1
                   total == [i \in DOMAIN sums |->
                                sums[i] + GroupTerm(GRADUATION_REQUIREMENTS[pgys][i], ys)]
                   before == <<y \cap GapRotations(pgys), prior[1]>>
               IN  /\ HardCell(b, xv, ys, r, total)
                   /\ \E column \in OtherColumns[num_residents][b] :
                         LET col == coverage_sums(b, pgys, leave_dict, ys, column)
                         IN  /\ HardColumn(b, col)
                             /\ others' = column
                             /\ heads' = col
                   /\ soft' \in ConditionValues(pgys, b, ys, r, before)
                   /\ blk' = b
                   /\ x' = xv
                   /\ y' = ys
                   /\ run' = r
                   /\ prior' = before
                   /\ sums' = total
    /\ UNCHANGED <<pc, status>>
    /\ UNCHANGED <<input_vars, parser_vars, builder_vars, result, writer_vars>>

\* solver.Solve(model) returns a solution: status OPTIMAL or FEASIBLE.
SolverReturns ==
    /\ pc = "solving"
    /\ blk = NUM_BLOCKS - 1
    /\ hard_graduation_requirements(pgys, leave_dict, sums)
    /\ pc' = "solved"
    /\ status' \in {"OPTIMAL", "FEASIBLE"}
    /\ UNCHANGED <<blk, x, y, run, prior, sums, others, heads, soft>>
    /\ UNCHANGED <<input_vars, parser_vars, builder_vars, result, writer_vars>>

\* solver.Solve(model) returns without a solution: the model has none, or the
\* search ended before one was found.
SolverFails ==
    /\ pc = "solving"
    /\ blk = 0 - 1
    /\ pc' = "unsolved"
    /\ status' \in {"INFEASIBLE", "MODEL_INVALID", "UNKNOWN"}
    /\ UNCHANGED <<blk, x, y, run, prior, sums, others, heads, soft>>
    /\ UNCHANGED <<input_vars, parser_vars, builder_vars, result, writer_vars>>

\* run, status in (OPTIMAL, FEASIBLE): SolutionWriter(...) and writer.write_to_excel(...)
WriteSolution ==
    /\ pc = "solved"
    /\ pc' = "done"
    /\ result' = IF WriterCallRaises # ""
                 THEN [NoResult EXCEPT !.raised = WriterCallRaises]
                 ELSE [returned |-> TRUE, success |-> TRUE, tables |-> "schedule", raised |-> ""]
    /\ UNCHANGED <<input_vars, parser_vars, builder_vars, solver_vars, writer_vars>>

\* run, any other status: return False, pd.DataFrame(), pd.DataFrame()
ReturnFailure ==
    /\ pc = "unsolved"
    /\ pc' = "done"
    /\ result' = [returned |-> TRUE, success |-> FALSE, tables |-> "empty", raised |-> ""]
    /\ UNCHANGED <<input_vars, parser_vars, builder_vars, solver_vars, writer_vars>>

Next ==
    \/ Parse \/ BuildModel \/ Solve \/ Assign \/ SolverReturns \/ SolverFails
    \/ WriteSolution \/ ReturnFailure

(***************************************************************************)
(* The input files                                                         *)
(***************************************************************************)
\* Rows without an override.
FreeRows ==
    {Row(l, p[1], p[2], << >>) : l \in {"R1", "R4_Chiefs", "R_NEURO"}, p \in MoreLeavePairs}
        \cup {Row("R4", p[1], p[2], << >>) : p \in LeavePairs}
        \cup {Row("R_NEURO", p[1], p[2], << >>) : p \in TemplateLeavePairs}
        \cup {Row("R1", 1, 0, << >>)}

\* The blocks pinned in the rows of R2 and R3.
PinnedCells ==
    [ R2 |-> (3 :> <<"CCU">>) @@ (4 :> <<"CCU">>) @@ (5 :> <<"MICU">>),
      R3 |-> (2 :> <<"Senior Rotation">>) @@ (4 :> <<"Senior Rotation">>) @@ (6 :> <<"AMAU">>) ]

PinnedRows ==
    {Row(l, p[1], p[2], PinnedCells[l]) : l \in DOMAIN PinnedCells, p \in LeavePairs}

\* A row of R3 with one Senior Rotation block pinned and the other left to the
\* solver, among blocks 1, 3, 4, 5 and 7.
SeniorOnceCells ==
    (2 :> <<"Senior Rotation">>) @@ (6 :> <<"AMAU">>) @@ (8 :> <<"Oncology">>)
        @@ (9 :> <<"Hematology">>) @@ (10 :> <<"Al Wakra">>) @@ (11 :> <<"GI">>)
        @@ (12 :> <<"GI">>) @@ (13 :> <<"Pulmonology">>)

SeniorOnceRows == {Row("R3", 0, 0, SeniorOnceCells)}

\* Rows with one cell written in one Block_b column.
OverrideRows(levels) ==
    {Row(l, p[1], p[2], ob :> cs) :
        l \in levels, p \in OverrideLeavePairs, ob \in OverrideBlocks, cs \in CellStrings}

Init ==
    \/ InitWith(FreeRows \cup PinnedRows \cup SeniorOnceRows \cup OverrideRows({"R4_Chiefs"}),
                {FullRoster})
    \/ InitWith(OverrideRows(Levels), RosterSizes \ {FullRoster})

Spec == Init /\ [][Next]_vars

(***************************************************************************)
(* Properties                                                              *)
(***************************************************************************)
\* The rotation of the cell last assigned.
held == idx_to_rotation[x]

full_leave_blocks == leave_dict.full

half_leave_blocks == leave_dict.half

\* C1: in every assigned cell exactly one indicator over the whole catalog is
\* true, and an indicator is true iff x[r, b] equals the index of its rotation.
C1_ExactlyOneIndicator ==
    blk >= 0 =>
        /\ Cardinality(y) = 1
        /\ \A rot \in RotationNames : (rot \in y) <=> (x = rotation_to_idx[rot])

C1_Witness ==
    /\ pc = "solved"
    /\ y = {"Medical Consultation"}
    /\ x = rotation_to_idx["Medical Consultation"]

\* C2: a cell holds LEAVE iff its block is a full-leave block of the resident.
C2_LeaveIffFullLeave ==
    blk >= 0 => ((x = leave_idx) <=> ((blk + 1) \in full_leave_blocks))

C2_Witness ==
    /\ pc = "solved"
    /\ (blk + 1) \in full_leave_blocks
    /\ held = LEAVE_ROTATION

\* C3: the rotation held in a half-leave block is in the leave-eligible subset of
\* the resident's level and in the level's eligibility set.
C3_HalfLeaveEligible ==
    (blk >= 0 /\ (blk + 1) \in half_leave_blocks) =>
        /\ pgys \in DOMAIN LEAVE_ELIGIBLE_ROTATIONS
        /\ held \in LEAVE_ELIGIBLE_ROTATIONS[pgys]
        /\ held \in eligibility_map[pgys]

C3_Witness ==
    /\ pc = "solved"
    /\ (blk + 1) \in half_leave_blocks
    /\ held \in LEAVE_ELIGIBLE_ROTATIONS[pgys]

\* The one requirement that may be skipped: the elective group of an R3 resident
\* with a full-leave block.
ExemptRequirement(requirement) ==
    /\ pgys = "R3"
    /\ requirement.rotations = {"Cardiology", "ED", "Medical Consultation"}
    /\ full_leave_blocks # {}

\* C4: in a returned schedule the blocks held in the group of every requirement
\* of the level are within [min, max], but for the elective group of an R3
\* resident with a full-leave block.
C4_GraduationSums ==
    pc = "solved" =>
        \A i \in 1 .. Len(GRADUATION_REQUIREMENTS[pgys]) :
            LET requirement == GRADUATION_REQUIREMENTS[pgys][i]
            IN  ~ExemptRequirement(requirement) =>
                    sums[i] \in requirement.min_blocks .. requirement.max_blocks

C4_Witness ==
    /\ pc = "solved"
    /\ pgys = "R3"
    /\ full_leave_blocks # {}
    /\ \E i \in 1 .. Len(GRADUATION_REQUIREMENTS["R3"]) :
          LET requirement == GRADUATION_REQUIREMENTS["R3"][i]
          IN  /\ ExemptRequirement(requirement)
              /\ sums[i] \notin requirement.min_blocks .. requirement.max_blocks

\* The residents the exact counts and the minimum table need in every block.
HeadCountDemand ==
    10 + 20 + Sum(PER_BLOCK_MINIMUM_STAFFING, DOMAIN PER_BLOCK_MINIMUM_STAFFING)

\* C5: in every assigned block Senior Rotation has exactly 10 residents,
\* Registrar Rotation exactly 20, Medical Teams exactly 20 from block 4 on, every
\* rotation of the minimum table at least its minimum; and no schedule is
\* returned for a roster with fewer residents than these counts need.
C5_StaffingNeverRelaxed ==
    /\ blk >= 0 =>
          /\ heads["Senior Rotation"] = 10
          /\ heads["Registrar Rotation"] = 20
          /\ (blk + 1 >= 4) => heads["Medical Teams"] = 20
          /\ \A rot \in DOMAIN PER_BLOCK_MINIMUM_STAFFING :
                heads[rot] >= PER_BLOCK_MINIMUM_STAFFING[rot]
    /\ num_residents < HeadCountDemand => pc # "solved"

C5_Witness ==
    /\ pc = "solved"
    /\ num_residents >= HeadCountDemand
    /\ heads["Senior Rotation"] = 10
    /\ heads["Medical Teams"] = 20

\* A forced entry names a rotation of the catalog outside the domain of its cell.
ForcedOutsideDomain ==
    \E b \in DOMAIN forced_assignments :
        /\ forced_assignments[b] \in RotationNames
        /\ rotation_to_idx[forced_assignments[b]] \notin domain[b]

\* C6: the solver is never called on a model in which a forced entry names a
\* rotation outside the domain of its cell.
C6_ConflictBeforeSolve ==
    (pc \in {"solving", "solved"}) => ~ForcedOutsideDomain

\* C7: a returned schedule holds, in the cell of every forced entry, the rotation
\* the entry names, and in the cell of every forbidden entry another rotation
\* than the one it names; this for names outside the catalog too.
C7_EveryOverrideEnforced ==
    pc = "solved" =>
        /\ blk \in DOMAIN forced_assignments => held = forced_assignments[blk]
        /\ blk \in DOMAIN forbidden_assignments => held # forbidden_assignments[blk]

\* C8: the domain built for every cell is non-empty.
C8_DomainNonEmpty ==
    (pc \in {"built", "solving", "solved"}) => \A b \in Blocks : domain[b] # {}

\* C9: the rotation held in a block that is not a full-leave block is named in
\* the graduation requirements of the resident's level; TRANSFER is held by
\* R_NEURO residents only.
C9_HeldWithinRequirements ==
    (blk >= 0 /\ (blk + 1) \notin full_leave_blocks) =>
        /\ \E i \in 1 .. Len(GRADUATION_REQUIREMENTS[pgys]) :
              held \in GRADUATION_REQUIREMENTS[pgys][i].rotations
        /\ held = TRANSFER_ROTATION => pgys = "R_NEURO"

C9_Witness ==
    /\ pc = "solved"
    /\ pgys = "R_NEURO"
    /\ held = TRANSFER_ROTATION
    /\ forced_assignments = << >>

\* C10: an R1 resident holds Medical Teams in block 1 and an R2 resident does not
\* hold Senior Rotation in block 1.
C10_FirstBlockRules ==
    blk = 0 =>
        /\ pgys = "R1" => held = "Medical Teams"
        /\ pgys = "R2" => held # "Senior Rotation"

\* The solve of a full roster returns a schedule for an R1 resident without
\* leave or override, whose Medical Teams blocks are within the requirement.
C10_Witness ==
    /\ pc = "solved"
    /\ pgys = "R1"
    /\ full_leave_blocks = {} /\ half_leave_blocks = {}
    /\ forced_assignments = << >> /\ forbidden_assignments = << >>
    /\ sums[1] >= 4

\* An R2 resident holds Senior Rotation in a block after the first.
R2SeniorLater == pc = "solving" /\ pgys = "R2" /\ blk > 0 /\ held = "Senior Rotation"

\* C11: a run ends, after a status OPTIMAL or FEASIBLE, with the writer run to
\* completion and success returned with the schedule, and after any other
\* status with failure returned with empty tables.
C11_RunOutcome ==
    pc = "done" =>
        IF status \in {"OPTIMAL", "FEASIBLE"}
        THEN /\ result.raised = ""
             /\ result.returned /\ result.success
             /\ result.tables = "schedule"
        ELSE /\ result.raised = ""
             /\ result.returned /\ ~result.success
             /\ result.tables = "empty"

\* The rotation of a term is held in every block the term reads, the last of
\* them being the block last assigned.
PatternHeld(term) ==
    /\ term.rot \in y
    /\ \A c \in term.blocks \ {blk} :
          IF term.blocks = term.start .. blk
          THEN run >= Cardinality(term.blocks)
          ELSE term.rot \in prior[blk - c]

\* C12: the condition variable of every objective term is true exactly when the
\* pattern of the term holds in the assignment.
C12_ConditionsLinkedBothWays ==
    blk >= 0 =>
        \A term \in objective_terms :
            LastBlock(term) = blk => ((term \in soft) <=> PatternHeld(term))

\* C13: after build_model every objective term is registered once in
\* soft_constraints_map, under a description of its own.
C13_EveryTermRegistered ==
    (pc \notin {"start", "parsed"}) =>
        /\ Len(soft_constraints_map) = Cardinality(objective_terms)
        /\ \A term \in objective_terms :
              \E i \in DOMAIN soft_constraints_map : soft_constraints_map[i].variable = term
        /\ \A i, j \in DOMAIN soft_constraints_map :
              soft_constraints_map[i].description = soft_constraints_map[j].description => i = j

\* What the resident of the row adds to the weighted 2ndOnCall sum of the block
\* last assigned: 3 in a half-leave block, else 6, nothing for R_NEURO.
Own2ndOnCall ==
    IF pgys # "R_NEURO" /\ held \in {"GI", "Rheumatology", "Pulmonology"}
    THEN (IF (blk + 1) \in half_leave_blocks THEN 3 ELSE 6)
    ELSE 0

\* What the resident of the row adds to the Floater count of the block.
OwnFloater ==
    IF pgys # "R_NEURO" /\ held \in {"Nephrology", "Endocrine"} THEN 1 ELSE 0

C19_NoSixMedicalTeams ==
    (blk >= 0 /\ pgys = "R1" /\ held = "Medical Teams") => run < 6

C19_Witness ==
    /\ pc = "solved"
    /\ pgys = "R1"
    /\ held = "Medical Teams"
    /\ run = 5

\* C20: no resident holds AMAU, or CCU, in both blocks of one of the pairs
\* (2,3), (4,5), (6,7), (8,9), (10,11).
C20_NoSeamStraddle ==
    (blk >= 0 /\ (blk + 1) \in {3, 5, 7, 9, 11}) =>
        ~(held \in {"AMAU", "CCU"} /\ run >= 2)

\* The rotation is held in both blocks of the batch (3,4).
C20_Witness ==
    /\ blk + 1 = 4
    /\ held \in {"AMAU", "CCU"}
    /\ run = 2

(***************************************************************************)
(* The parser alone, over every pair of leave requests                     *)
(***************************************************************************)
\* Leave1Block and Leave2Block: 0 for no request, or a block number.
LeaveBlocks == 0 .. NUM_BLOCKS

LeaveRows == {Row(l, block1, block2, << >>) : l \in Levels, block1 \in LeaveBlocks, block2 \in LeaveBlocks}

InitParser == InitWith(LeaveRows, {FullRoster})

NextParser == Parse

SpecParser == InitParser /\ [][NextParser]_vars

\* C17: two requests for the same non-zero block make it the only full-leave
\* block, with no half-leave block; otherwise every non-zero block requested is
\* a half-leave block and there is no full-leave block.  The two sets are
\* disjoint, with at most two leave blocks and at most one full-leave block.
C17_LeavePairParsed ==
    pc = "parsed" =>
        LET block1 == source_df.Leave1Block
            block2 == source_df.Leave2Block
        IN  /\ IF block1 # 0 /\ block1 = block2
               THEN leave_dict.full = {block1} /\ leave_dict.half = {}
               ELSE /\ leave_dict.full = {}
                    /\ leave_dict.half = {block1, block2} \ {0}
            /\ leave_dict.full \cap leave_dict.half = {}
            /\ Cardinality(leave_dict.full \cup leave_dict.half) <= 2
            /\ Cardinality(leave_dict.full) <= 1

\* A full leave parsed from two requests for the last block.
C17_Witness ==
    /\ pc = "parsed"
    /\ source_df.Leave1Block = NUM_BLOCKS
    /\ source_df.Leave2Block = NUM_BLOCKS
    /\ leave_dict.full = {NUM_BLOCKS}

(***************************************************************************)
(* scheduler/writer.py: _analyze_soft_constraints                          *)
(***************************************************************************)
\* The text of a description, as the sequence of its words: a rotation name is
\* written word by word.
Words(rot) ==
    CASE rot = "Senior Rotation" -> <<"Senior", "Rotation">>
      [] rot = "Registrar Rotation" -> <<"Registrar", "Rotation">>
      [] rot = "Medical Teams" -> <<"Medical", "Teams">>
      [] OTHER -> <<rot>>

\* word in description
Contains(description, word) == \E i \in DOMAIN description : description[i] = word

\* The branch of the analyzer a description takes: "" when it takes neither.
Category(description) ==
    IF Contains(description, "REWARD") THEN "REWARD"
    ELSE IF Contains(description, "PENALTY") THEN "PENALTY"
    ELSE ""

\* weight, as the analyzer reads it from the description
AnalyzerWeight(description) ==
    IF Category(description) = "REWARD"
    THEN (IF \/ Contains(description, "MICU")
             \/ Contains(description, "CCU")
             \/ Contains(description, "Hematology/Oncology")
          THEN 2 * REWARD_WEIGHT ELSE REWARD_WEIGHT)
    ELSE IF Category(description) = "PENALTY"
    THEN (IF Contains(description, "Senior") \/ Contains(description, "Registrar")
          THEN 2 * PENALTY_WEIGHT ELSE PENALTY_WEIGHT)
    ELSE 0

\* One iteration of `for description, variable in self.soft_constraints_map.items()`
AnalyzeRule ==
    /\ pc = "analyzing"
    /\ position < Len(soft_constraints_map)
    /\ LET description == soft_constraints_map[position + 1].description
           variable == soft_constraints_map[position + 1].variable
           is_satisfied == variable \in soft
           category == Category(description)
           weight == AnalyzerWeight(description)
           score_contribution == IF category # "" /\ is_satisfied THEN weight ELSE 0
       IN  /\ raw_score' = raw_score + score_contribution
           /\ satisfied_constraints' =
                 IF category # "" /\ is_satisfied
                 THEN Append(satisfied_constraints,
                             [mark |-> IF category = "REWARD" THEN "check" ELSE "cross",
                              description |-> description])
                 ELSE satisfied_constraints
           /\ unsatisfied_constraints' =
                 IF category # "" /\ ~is_satisfied
                 THEN Append(unsatisfied_constraints,
                             [mark |-> IF category = "REWARD" THEN "dash" ELSE "avoided",
                              description |-> description])
                 ELSE unsatisfied_constraints
           /\ log_records' =
                 Append(log_records,
                        [Constraint |-> description,
                         Status |-> IF is_satisfied THEN "Satisfied" ELSE "Not Satisfied",
                         ScoreContribution |-> score_contribution])
    /\ position' = position + 1
    /\ UNCHANGED <<input_vars, pc, parser_vars, builder_vars, solver_vars, result>>
    /\ UNCHANGED <<max_possible_score, normalized_score>>

\* NORMALIZATION LOGIC, after the loop; the score is kept as a fraction.
Normalize ==
    /\ pc = "analyzing"
    /\ position = Len(soft_constraints_map)
    /\ pc' = "analyzed"
    /\ normalized_score' =
          IF max_possible_score > 0
          THEN [num |-> raw_score, den |-> max_possible_score]
          ELSE IF raw_score = 0 THEN [num |-> 1, den |-> 1] ELSE [num |-> 0, den |-> 1]
    /\ UNCHANGED <<input_vars, parser_vars, builder_vars, solver_vars, result>>
    /\ UNCHANGED <<max_possible_score, position, raw_score, satisfied_constraints,
                   unsatisfied_constraints, log_records>>

\* The start blocks of the rules handed to the analyzer.
RuleStarts == {2}

\* The rules of a level handed to the analyzer.
RuleSample(pgy) == {term \in set_objective_function(pgy) : term.start \in RuleStarts}

\* The hard rule on consecutive Senior Rotation blocks keeps the condition
\* variable of such a pair false for an R3 resident.
CanHold(term) == ~(term.name = "consecutive" /\ term.rot = "Senior Rotation")

\* Conditions that can be true together: no block is read for two rotations.
Compatible(terms) ==
    \A s, t \in terms : s.rot = t.rot \/ s.blocks \cap t.blocks = {}

\* The solved values: the sets of the rules whose condition variable is 1.
SolvedValues(pgy) ==
    {terms \in SUBSET {term \in RuleSample(pgy) : CanHold(term)} : Compatible(terms)}

\* The descriptions of the rules: a first word, the words of the rotation and
\* the name of the condition variable.
Descriptions(pgy) ==
    {<<word>> \o Words(term.rot) \o <<term.name>> :
        word \in {"REWARD", "PENALTY", "RULE"}, term \in RuleSample(pgy)}

\* The maps from descriptions to condition variables, in insertion order;
\* the keys of a dict are distinct.
RuleMaps(pgy) ==
    LET entries == [description : Descriptions(pgy), variable : RuleSample(pgy)]
    IN  UNION {{map \in [1 .. n -> entries] :
                   \A i, j \in 1 .. n : map[i].description = map[j].description => i = j} :
               n \in 0 .. MaxRules}

\* _analyze_soft_constraints is entered with the map, the solved values and the
\* maximum score it is given.
InitAnalyzer ==
    /\ source_df \in {Row(l, 0, 0, << >>) : l \in Levels}
    /\ num_residents = FullRoster
    /\ pc = "analyzing"
    /\ leave_dict = parse_leave_requests(source_df)
    /\ forced_assignments = << >>
    /\ forbidden_assignments = << >>
    /\ eligibility_map = build_eligibility_map
    /\ domain = << >>
    /\ soft_constraints_map \in RuleMaps(pgys)
    /\ blk = NUM_BLOCKS - 1
    /\ x = None
    /\ y = {}
    /\ run = 0
    /\ prior = <<{}, {}>>
    /\ sums = << >>
    /\ others = ZeroColumn
    /\ heads = ZeroColumn
    /\ soft \in SolvedValues(pgys)
    /\ status = "OPTIMAL"
    /\ result = NoResult
    /\ max_possible_score \in 0 .. MaxScore
    /\ position = 0
    /\ raw_score = 0
    /\ normalized_score = [num |-> 0, den |-> 1]
    /\ satisfied_constraints = << >>
    /\ unsatisfied_constraints = << >>
    /\ log_records = << >>

NextAnalyzer == AnalyzeRule \/ Normalize

SpecAnalyzer == InitAnalyzer /\ [][NextAnalyzer]_vars

\* The value of the objective: the sum of the weights of the true conditions.
RECURSIVE WeightOf(_)
WeightOf(terms) ==
    IF terms = {} THEN 0
    ELSE LET term == CHOOSE term \in terms : TRUE
         IN  term.weight + WeightOf(terms \ {term})

\* C14: the raw score is the objective value of the solution, and the weight
\* the analyzer reads for a rule is the weight the builder gave its condition.
C14_RawScoreIsObjective ==
    pc = "analyzed" =>
        /\ raw_score = WeightOf(soft)
        /\ \A i \in DOMAIN soft_constraints_map :
              AnalyzerWeight(soft_constraints_map[i].description)
                  = soft_constraints_map[i].variable.weight

\* The normalized score as lines 84..90 compute it.
NormalizedAsWritten ==
    pc = "analyzed" =>
        IF max_possible_score > 0
        THEN normalized_score = [num |-> raw_score, den |-> max_possible_score]
        ELSE normalized_score = [num |-> IF raw_score = 0 THEN 1 ELSE 0, den |-> 1]

\* C15: the normalized score is raw / max for a positive maximum, else 1 for a
\* zero raw score and 0 otherwise; without rewards it is 1 when no penalty
\* condition is true and below 1 when one is.
C15_NormalizedScore ==
    pc = "analyzed" =>
        /\ NormalizedAsWritten
        /\ (max_possible_score = 0 /\ \A term \in objective_terms : term.weight <= 0) =>
              IF \E term \in soft : term.weight < 0
              THEN normalized_score.num < normalized_score.den
              ELSE normalized_score.num = normalized_score.den

\* The entries of a list made for a description.
Listed(list, description) == {i \in DOMAIN list : list[i].description = description}

\* C16: one log record per registered rule, in the order of registration, with
\* the status of its condition and its weight as contribution when satisfied;
\* every rule is in exactly one of the two lists, the satisfied one exactly
\* when its condition is true.
C16_LogAndLists ==
    pc = "analyzed" =>
        /\ Len(log_records) = Len(soft_constraints_map)
        /\ \A i \in DOMAIN soft_constraints_map :
              LET rule == soft_constraints_map[i]
                  is_satisfied == rule.variable \in soft
              IN  /\ log_records[i].Constraint = rule.description
                  /\ log_records[i].Status = "Satisfied" <=> is_satisfied
                  /\ log_records[i].ScoreContribution
                        = (IF is_satisfied THEN rule.variable.weight ELSE 0)
                  /\ Cardinality(Listed(satisfied_constraints, rule.description))
                        = (IF is_satisfied THEN 1 ELSE 0)
                  /\ Cardinality(Listed(unsatisfied_constraints, rule.description))
                        = (IF is_satisfied THEN 0 ELSE 1)

(***************************************************************************)
(* Properties of the schedules of single levels                            *)
(***************************************************************************)
\* total_rotations_in_group, up to the block last assigned, of the requirement
\* of the level of the row for the group rotations.
GroupSum(rotations) ==
    sums[CHOOSE i \in 1 .. Len(GRADUATION_REQUIREMENTS[pgys]) :
            GRADUATION_REQUIREMENTS[pgys][i].rotations = rotations]

\* C21: an R_NEURO resident holds Medical Teams in blocks 1..3 and TRANSFER in
\* blocks 12 and 13; in blocks 4..11 it holds a rotation of its eligibility that
\* is not Medical Teams, Medical Teams is held in no block after the third, and
\* in a returned schedule TRANSFER is held in blocks 12 and 13 alone.
C21_NeuroTemplate ==
    (pgys = "R_NEURO" /\ blk >= 0) =>
        /\ blk \in {0, 1, 2} => (held = "Medical Teams" /\ GroupSum({"Medical Teams"}) = blk + 1)
        /\ blk >= 2 => GroupSum({"Medical Teams"}) = 3
        /\ blk \in 3 .. 10 => (held \in eligibility_map[pgys] /\ held # "Medical Teams")
        /\ blk \in {11, 12} => held = "TRANSFER"
        /\ pc = "solved" => (run >= 2 /\ GroupSum({"TRANSFER"}) = 2)

\* A returned schedule of an R_NEURO resident.
C21_Witness ==
    /\ pc = "solved"
    /\ pgys = "R_NEURO"
    /\ held = "TRANSFER"
    /\ run = 2
    /\ GroupSum({"AMAU"}) = 4

\* The blocks a leave request of the row names, full or half.
leave_blocks == full_leave_blocks \cup half_leave_blocks

\* The blocks pinned for the level of the row by the first-block rule of R1 and
\* by the template of R_NEURO.
PinnedBlocks ==
    IF pgys = "R1" THEN {1}
    ELSE IF pgys = "R_NEURO" THEN {1, 2, 3, 12, 13}
    ELSE {}

\* C25: with a leave request, full or half, in block 1 of an R1 resident or in
\* one of blocks 1..3, 12, 13 of an R_NEURO resident the solver returns no
\* schedule, and the run returns failure with empty tables.
C25_LeaveOnPinnedBlock ==
    (pc # "start" /\ leave_blocks \cap PinnedBlocks # {}) =>
        /\ pc # "solved"
        /\ status \notin {"OPTIMAL", "FEASIBLE"}
        /\ \A b \in Blocks :
              (pc \notin {"parsed"} /\ (b + 1) \in leave_blocks \cap PinnedBlocks) =>
                  rotation_to_idx[IF pgys = "R1" \/ b <= 2 THEN "Medical Teams" ELSE "TRANSFER"]
                      \notin domain[b]
        /\ pc = "done" => (result.returned /\ ~result.success /\ result.tables = "empty")

\* The run has returned failure for an R_NEURO resident with a half leave in
\* block 12.
C25_Witness ==
    /\ pc = "done"
    /\ pgys = "R_NEURO"
    /\ half_leave_blocks = {12}
    /\ ~result.success

\* The elective group of R3.
ElectiveGroup == {"Cardiology", "ED", "Medical Consultation"}

\* C24: in a returned schedule an R3 resident with a full-leave block holds no
\* block of the elective group and one without holds exactly one; the quotas
\* of the other groups are exact and fill the remaining blocks.
C24_ElectiveOfR3 ==
    (pgys = "R3" /\ pc = "solved") =>
        /\ GroupSum(ElectiveGroup) = (IF full_leave_blocks # {} THEN 0 ELSE 1)
        /\ full_leave_blocks # {} => held \notin ElectiveGroup
        /\ \A i \in 1 .. Len(GRADUATION_REQUIREMENTS["R3"]) :
              LET requirement == GRADUATION_REQUIREMENTS["R3"][i]
              IN  requirement.rotations # ElectiveGroup =>
                      /\ requirement.min_blocks = requirement.max_blocks
                      /\ sums[i] = requirement.max_blocks
        /\ Sum(sums, DOMAIN sums) = NUM_BLOCKS - Cardinality(full_leave_blocks)

\* A returned schedule of an R3 resident with a full leave in block 7.
C24_Witness ==
    /\ pc = "solved"
    /\ pgys = "R3"
    /\ full_leave_blocks = {7}
    /\ GroupSum(ElectiveGroup) = 0
    /\ Sum(sums, DOMAIN sums) = 12

\* A returned schedule of an R3 resident without a full leave.
R3WithElective ==
    /\ pc = "solved"
    /\ pgys = "R3"
    /\ full_leave_blocks = {}
    /\ GroupSum(ElectiveGroup) = 1

\* The objective terms of the row for two consecutive blocks of a rotation.
ConsecutiveTerms(rot) ==
    {term \in objective_terms : term.name = "consecutive" /\ term.rot = rot}

\* C23: no R2 or R3 resident holds Senior Rotation in two consecutive blocks,
\* whichever of the 12 adjacent pairs, and the condition variable of every
\* consecutive Senior Rotation term of an R3 resident is false: the terms add
\* nothing to the objective.
C23_SeniorPairNeverTrue ==
    blk >= 0 =>
        /\ (pgys \in {"R2", "R3"} /\ held = "Senior Rotation") => run < 2
        /\ pgys = "R3" =>
              /\ soft \cap ConsecutiveTerms("Senior Rotation") = {}
              /\ Sum([term \in soft \cap ConsecutiveTerms("Senior Rotation") |-> term.weight],
                     soft \cap ConsecutiveTerms("Senior Rotation")) = 0

\* The solver has given an R3 resident its second Senior Rotation block two
\* blocks after the first: the condition variable of the pair ending there is false.
C23_Witness ==
    /\ pgys = "R3"
    /\ blk = 3
    /\ held = "Senior Rotation"
    /\ run = 1
    /\ "Senior Rotation" \in prior[2]
    /\ \E term \in ConsecutiveTerms("Senior Rotation") : LastBlock(term) = blk /\ term \notin soft

\* The values of x[0, b], of y[0, b, .], of the run length and of the indicators
\* of the two blocks before, for b the block after the last assigned, that
\* satisfy the hard constraints: the model without its objective.
HardFeasibleCells ==
    LET b == blk + 1
        cells == {[xv |-> cell[1], ys |-> cell[2],
                   r |-> IF cell[2] = y /\ cell[2] # {}
                         THEN (IF run < LongestWindow THEN run + 1 ELSE run)
                         ELSE 1,
                   before |-> <<y \cap GapRotations(pgys), prior[1]>>] :
                     cell \in create_decision_variables(domain[b])}
    IN  {c \in cells :
            /\ HardCell(b, c.xv, c.ys, c.r,
                        [i \in DOMAIN sums |->
                            sums[i] + GroupTerm(GRADUATION_REQUIREMENTS[pgys][i], c.ys)])
            /\ \E column \in OtherColumns[num_residents][b] :
                  HardColumn(b, coverage_sums(b, pgys, leave_dict, c.ys, column))}

\* C22: whatever the hard constraints allow for the next block, the condition
\* variables that are assigned with it have values that satisfy their links:
\* the soft rules take no assignment away.
C22_SoftNeverInfeasible ==
    (pc = "solving" /\ blk < NUM_BLOCKS - 1) =>
        \A c \in HardFeasibleCells :
            ConditionValues(pgys, blk + 1, c.ys, c.r, c.before) # {}

\* An R3 resident can be given Senior Rotation two blocks after a Senior
\* Rotation block: the gap variable can take either value, the variable of the
\* consecutive pair is false.
C22_Witness ==
    /\ pc = "solving"
    /\ blk < NUM_BLOCKS - 1
    /\ pgys = "R3"
    /\ \E c \in HardFeasibleCells :
          /\ "Senior Rotation" \in c.ys
          /\ "Senior Rotation" \in c.before[2]
          /\ Cardinality(ConditionValues(pgys, blk + 1, c.ys, c.r, c.before)) = 2

====
